---- MODULE Spec2Model ----
(***************************************************************************)
(* A model of the moose store of lib/db.js: the Moose table, the           *)
(* MooseSearch full-text index, the two triggers that couple them, the     *)
(* record codec (rowToMoose / mooseToRow), the operations of MooseDB and   *)
(* the export stream MooseReadable over the cursor of the dump statement.  *)
(*                                                                         *)
(* Values are tagged so that values of different types never compare:      *)
(*   SQL values   [null |-> TRUE], [int |-> n], [text |-> s], [blob |-> b] *)
(*   JS numbers   [num |-> n] (a finite integer), [nan |-> TRUE],          *)
(*                [frac |-> <<floor, "1/2">>], [inf |-> sign]              *)
(*   JS Date      [date |-> <JS number>]   (its time value)                *)
(*   JS undefined [undefined |-> TRUE]; a property an object does not have *)
(*                is a field the record does not have.                     *)
(* A JS string is a sequence of pieces: a piece is one character, or one   *)
(* of the words "AND" and "OR" taken whole.                                *)
(*                                                                         *)
(* The gallery store of the web client (state.gallery, state.galleryPage,  *)
(* state.galleryNextPage) is modelled with the requests it has sent: each  *)
(* request is answered once, in any order, and the blobs of an answer are  *)
(* rendered one by one, in any order.                                      *)
(***************************************************************************)
EXTENDS Integers, Sequences, FiniteSets, Bags, TLC

VARIABLES Moose, MooseSearch, call, reader, state, requests

vars == <<Moose, MooseSearch, call, reader, state, requests>>

----------------------------------------------------------------------------
(* Bounds of the model. *)

\* The largest rowid the Moose table may reach (sqlite's own bound is 2^63-1).
MaxRowid == 3

\* The longest batch handed to bulkSaveMoose.
MaxBatch == 3

\* The largest offset and the largest limit getGalleryPage is called with.
MaxOffset == 2

MaxLimit == 2

\* The longest search query, in pieces.
MaxQueryLen == 4

\* The most export streams opened one after the other.
MaxReaders == 2

\* The width in bits of the integers RANDOM() draws (sqlite's is 64).
RandomBits == 4

----------------------------------------------------------------------------
(* Values. *)

Null == [null |-> TRUE]

Undefined == [undefined |-> TRUE]

SqlInt(n) == [int |-> n]

SqlText(s) == [text |-> s]

SqlBlob(b) == [blob |-> b]

Num(n) == [num |-> n]

NaN == [nan |-> TRUE]

Infinity == [inf |-> 1]

NegInfinity == [inf |-> -1]

\* n + 1/2
Half(n) == [frac |-> n]

Date(t) == [date |-> t]

\* obj.key ?? dflt, bound to a statement parameter: the string as TEXT, or
\* dflt when the property is missing (undefined)
Coalesce(obj, key, dflt) ==
    IF key \in DOMAIN obj THEN SqlText(obj[key]) ELSE dflt

\* obj.key ? 1 : 0 : a missing property is falsy
Truthy(obj, key) == IF key \in DOMAIN obj THEN obj[key] ELSE FALSE

\* +moose.created : a Date converts to its time value, undefined to NaN
ToNumber(obj, key) ==
    IF key \notin DOMAIN obj THEN NaN
    ELSE IF "date" \in DOMAIN obj[key] THEN obj[key].date
    ELSE obj[key]

\* isNaN(x)
IsNaN(x) == x = NaN

\* A JS number bound to a statement parameter of a column of INTEGER
\* affinity: an integral value is stored as an INTEGER.
BindNumber(x) == IF "num" \in DOMAIN x THEN SqlInt(x.num) ELSE [real |-> x]

----------------------------------------------------------------------------
(* The record codec. *)

\* A column of INTEGER affinity read into JS: the INTEGER or the REAL that
\* the row holds, as a number
ColumnNumber(value) ==
    IF "int" \in DOMAIN value THEN Num(value.int) ELSE value.real

\* new Date(value): the time value of a Date is an integer, the number
\* truncated towards zero, or NaN for a number that is not finite
TimeClip(x) ==
    IF "num" \in DOMAIN x THEN x
    ELSE IF "frac" \in DOMAIN x
         THEN Num(IF x.frac >= 0 THEN x.frac ELSE x.frac + 1)
    ELSE NaN

\* rowToMoose of a row that exists
RowFields(row) ==
    [name     |-> row.name.text,
     image    |-> row.image.text,
     shade    |-> IF row.shade = Null THEN Null ELSE row.shade.text,
     created  |-> Date(TimeClip(ColumnNumber(row.created))),
     hd       |-> row.hd # Null /\ row.hd.int # 0,
     shaded   |-> row.shaded # Null /\ row.shaded.int # 0,
     extended |-> row.extended # Null /\ row.extended.int # 0]

\* rows is the set of rows a statement's get() found (at most the one it
\* returns); no row is undefined
rowToMoose(row) == IF row = Undefined THEN Undefined ELSE RowFields(row)

\* mooseToRow with the shade left out of the row
mooseToRow_NoShade(moose) ==
    [name     |-> Coalesce(moose, "name", Null),
     created  |-> IF IsNaN(ToNumber(moose, "created")) THEN Null
                  ELSE BindNumber(ToNumber(moose, "created")),
     image    |-> Coalesce(moose, "image", Null),
     shade    |-> SqlText(""),
     hd       |-> SqlInt(IF Truthy(moose, "hd") THEN 1 ELSE 0),
     shaded   |-> SqlInt(IF Truthy(moose, "shaded") THEN 1 ELSE 0),
     extended |-> SqlInt(IF Truthy(moose, "extended") THEN 1 ELSE 0)]

mooseToRow(moose) ==
    [name     |-> Coalesce(moose, "name", Null),
     created  |-> IF IsNaN(ToNumber(moose, "created")) THEN Null
                  ELSE BindNumber(ToNumber(moose, "created")),
     image    |-> Coalesce(moose, "image", Null),
     shade    |-> Coalesce(moose, "shade", SqlText("")),
     hd       |-> SqlInt(IF Truthy(moose, "hd") THEN 1 ELSE 0),
     shaded   |-> SqlInt(IF Truthy(moose, "shaded") THEN 1 ELSE 0),
     extended |-> SqlInt(IF Truthy(moose, "extended") THEN 1 ELSE 0)]

----------------------------------------------------------------------------
(* The schema: the Moose table, the MooseSearch index and the triggers.    *)
(* A database is [Moose |-> set of rows, MooseSearch |-> bag of the        *)
(* moose_name of the index's rows].                                        *)

NoError == <<>>

UniqueName == <<"UNIQUE constraint failed", "Moose.name">>

NotNull(col) == <<"NOT NULL constraint failed", col>>

MaxOf(S) == IF S = {} THEN 0 ELSE CHOOSE x \in S : \A y \in S : y <= x

Rowids(table) == {r.rowid : r \in table}

StoredNames(table) == {r.name.text : r \in table}

\* AFTER INSERT ON Moose: INSERT INTO MooseSearch(moose_name) VALUES (NEW.name)
Moose_InsertTrigger(search, new) == search (+) SetToBag({new.name.text})

\* INSERT OR REPLACE: a row of the same name is replaced
InsertOrReplace(db, row) ==
    IF row.name = Null THEN [err |-> NotNull("Moose.name"), db |-> db]
    ELSE IF row.created = Null THEN [err |-> NotNull("Moose.created"), db |-> db]
    ELSE IF row.image = Null THEN [err |-> NotNull("Moose.image"), db |-> db]
    ELSE LET kept == {r \in db.Moose : r.name.text # row.name.text}
             new == [rowid    |-> MaxOf(Rowids(db.Moose)) + 1,
                     name     |-> row.name,
                     created  |-> row.created,
                     image    |-> row.image,
                     shade    |-> row.shade,
                     hd       |-> row.hd,
                     shaded   |-> row.shaded,
                     extended |-> row.extended,
                     png      |-> Null]
         IN  [err |-> NoError,
              db  |-> [Moose       |-> kept \cup {new},
                       MooseSearch |-> db.MooseSearch
                                        (+) SetToBag({row.name.text})]]

\* INSERT INTO Moose(...) VALUES (...): the NOT NULL columns are checked in
\* column order, then the primary key; a row that passes gets the rowid
\* after the largest one and fires the insert trigger. A statement that
\* fails changes nothing.
InsertMoose(db, row) ==
    IF row.name = Null THEN [err |-> NotNull("Moose.name"), db |-> db]
    ELSE IF row.created = Null THEN [err |-> NotNull("Moose.created"), db |-> db]
    ELSE IF row.image = Null THEN [err |-> NotNull("Moose.image"), db |-> db]
    ELSE IF row.name.text \in StoredNames(db.Moose)
         THEN [err |-> UniqueName, db |-> db]
    ELSE LET new == [rowid    |-> MaxOf(Rowids(db.Moose)) + 1,
                     name     |-> row.name,
                     created  |-> row.created,
                     image    |-> row.image,
                     shade    |-> row.shade,
                     hd       |-> row.hd,
                     shaded   |-> row.shaded,
                     extended |-> row.extended,
                     png      |-> Null]
         IN  [err |-> NoError,
              db  |-> [Moose       |-> db.Moose \cup {new},
                       MooseSearch |-> Moose_InsertTrigger(db.MooseSearch, new)]]

\* the delete trigger without its DELETE FROM MooseSearch
Moose_DelTrigger_KeepsIndex(db, old) ==
    [Moose       |-> {IF r.rowid = MaxOf(Rowids(db.Moose))
                          THEN [r EXCEPT !.rowid = old.rowid]
                          ELSE r : r \in db.Moose},
     MooseSearch |-> db.MooseSearch]

\* AFTER DELETE ON Moose, for the deleted row old and the table without it:
\*   DELETE FROM MooseSearch WHERE moose_name = OLD.name;
\*   UPDATE MOOSE SET rowid = OLD.rowid
\*     WHERE rowid = ( Select max(rowid) FROM Moose );
Moose_DelTrigger(db, old) ==
    [Moose       |-> {IF r.rowid = MaxOf(Rowids(db.Moose))
                          THEN [r EXCEPT !.rowid = old.rowid]
                          ELSE r : r \in db.Moose},
     MooseSearch |-> [n \in BagToSet(db.MooseSearch) \ {old.name.text}
                          |-> db.MooseSearch[n]]]

\* a delete that purges the index and leaves the row
DeleteFromIndex(db, name) ==
    [db EXCEPT !.MooseSearch =
        [n \in BagToSet(db.MooseSearch) \ {name} |-> db.MooseSearch[n]]]

\* a delete whose trigger also runs when no row was deleted, OLD being
\* the first row then
DeleteFromMoose_Statement(db, name) ==
    LET hit == {r \in db.Moose : r.name.text = name}
        old == IF hit = {} THEN {r \in db.Moose : r.rowid = 1} ELSE hit
    IN  IF old = {} THEN db
        ELSE Moose_DelTrigger([db EXCEPT !.Moose = db.Moose \ hit],
                              CHOOSE r \in old : TRUE)

\* DELETE FROM Moose WHERE name = ?
DeleteFromMoose(db, name) ==
    LET hit == {r \in db.Moose : r.name.text = name}
    IN  IF hit = {} THEN db
        ELSE Moose_DelTrigger([db EXCEPT !.Moose = db.Moose \ hit],
                              CHOOSE r \in hit : TRUE)

\* an update that writes the image column
UpdatePng_Image(db, name, png) ==
    [db EXCEPT !.Moose = {IF r.name.text = name
                              THEN [r EXCEPT !.image = png]
                              ELSE r : r \in db.Moose}]

\* the update without its WHERE
UpdatePng_All(db, name, png) ==
    [db EXCEPT !.Moose = {[r EXCEPT !.png = png] : r \in db.Moose}]

\* UPDATE Moose SET png = $png WHERE name = $name
UpdatePng(db, name, png) ==
    [db EXCEPT !.Moose = {IF r.name.text = name
                              THEN [r EXCEPT !.png = png]
                              ELSE r : r \in db.Moose}]

\* SELECT ... FROM Moose WHERE name = ? : the row, or undefined
SelectByName(table, name) ==
    IF name \in StoredNames(table)
    THEN CHOOSE r \in table : r.name.text = name
    ELSE Undefined

----------------------------------------------------------------------------
(* The operations of MooseDB, as functions of the database. *)

getMooseByName(db, name) == rowToMoose(SelectByName(db.Moose, name))

\* this.getMoosePngStmt.get(moose)?.png
getMoosePng(db, name) ==
    IF SelectByName(db.Moose, name) = Undefined THEN Undefined
    ELSE SelectByName(db.Moose, name).png

saveMoose(db, moose) == InsertMoose(db, mooseToRow(moose))

\* the loop with a break in the place of the continue
RECURSIVE BulkLoop_Break(_, _, _, _)
BulkLoop_Break(db, meese, i, warned) ==
    IF i > Len(meese) THEN [err |-> NoError, db |-> db, warned |-> warned]
    ELSE LET r == InsertMoose(db, mooseToRow(meese[i]))
         IN  IF r.err = NoError THEN BulkLoop_Break(r.db, meese, i + 1, warned)
             ELSE IF r.err = UniqueName
                  THEN [err |-> NoError, db |-> db,
                        warned |-> Append(warned, meese[i].name)]
             ELSE [err |-> r.err, db |-> r.db, warned |-> warned]

\* The loop of bulkSaveMoose from the i-th moose on: a duplicate name is
\* logged and skipped, any other error ends the loop.
RECURSIVE BulkLoop(_, _, _, _)
BulkLoop(db, meese, i, warned) ==
    IF i > Len(meese) THEN [err |-> NoError, db |-> db, warned |-> warned]
    ELSE LET r == InsertMoose(db, mooseToRow(meese[i]))
         IN  IF r.err = NoError THEN BulkLoop(r.db, meese, i + 1, warned)
             ELSE IF r.err = UniqueName
                  THEN BulkLoop(db, meese, i + 1,
                                Append(warned, meese[i].name))
             ELSE [err |-> r.err, db |-> r.db, warned |-> warned]

\* the loop run outside a transaction: what it did before it threw stays
Transaction_NoRollback(db, done) == done

\* this.db.transaction(fn): commit what fn did, or roll back when it throws
Transaction(db, done) ==
    IF done.err = NoError THEN done ELSE [done EXCEPT !.db = db]

bulkSaveMoose(db, meese) == Transaction(db, BulkLoop(db, meese, 1, <<>>))

saveMoosePng(db, name, png) == UpdatePng(db, name, SqlBlob(png))

deleteMoose(db, name) == DeleteFromMoose(db, name)

\* what run() returns: the number of rows the statement itself changed
RunInfo(before, name, after) ==
    [changes |-> IF (name \in StoredNames(before.Moose))
                     \/ (name \in StoredNames(after.Moose))
                 THEN 1 ELSE 0]

----------------------------------------------------------------------------
(* getGalleryPage: the check of offset and limit, the page query and the   *)
(* search query.                                                           *)

\* isFinite(x)
IsFinite(x) == ("num" \in DOMAIN x) \/ ("frac" \in DOMAIN x)

\* Number.isInteger(x)
IsInteger(x) == "num" \in DOMAIN x

notInt(val) == IsNaN(val) \/ ~IsFinite(val) \/ ~IsInteger(val)

TypeError == <<"TypeError", "offset or limit is not a number">>

\* let newOrder = 'DESC'; if (order === 'oldest') newOrder = 'ASC'
NewOrder(order) == IF order = "oldest" THEN "ASC" ELSE "DESC"

\* ORDER BY created ASC | DESC over columns that hold integers
InOrder(x, y, order) ==
    IF order = "ASC" THEN x.created.int <= y.created.int
    ELSE x.created.int >= y.created.int

\* the rows in the order the index gave them: any arrangement
OrderByRank(rows, order) ==
    {s \in [1..Cardinality(rows) -> rows] :
        \A i, j \in DOMAIN s : i # j => s[i] # s[j]}

\* The orders ORDER BY may give the rows of a set: every arrangement that
\* is sorted by created; the order of rows with equal created is any.
OrderBy(rows, order) ==
    {s \in [1..Cardinality(rows) -> rows] :
        /\ \A i, j \in DOMAIN s : i # j => s[i] # s[j]
        /\ \A i, j \in DOMAIN s : i < j => InOrder(s[i].row, s[j].row, order)}

\* LIMIT limit, offset: the two swapped
LimitRows_Swapped(s, offset, limit) ==
    LET from == IF limit < 0 THEN 0 ELSE limit
        upto == IF offset < 0 \/ from + offset > Len(s) THEN Len(s)
                ELSE from + offset
    IN  SubSeq(s, from + 1, upto)

\* LIMIT offset, limit: a negative offset is no offset, a negative limit
\* is no limit
LimitRows(s, offset, limit) ==
    LET from == IF offset < 0 THEN 0 ELSE offset
        upto == IF limit < 0 \/ from + limit > Len(s) THEN Len(s)
                ELSE from + limit
    IN  SubSeq(s, from + 1, upto)

MapRows(s) == [i \in DOMAIN s |-> rowToMoose(s[i].row)]

\* SELECT ... FROM Moose ORDER BY created <order> LIMIT <offset>, <limit>
PageQuery(db, offset, limit, order) ==
    {MapRows(LimitRows(s, offset, limit)) :
        s \in OrderBy({[row |-> r, copy |-> 1] : r \in db.Moose}, order)}

(* The escaping of the query, in _findMooseByQuery. *)

Quote == "\""

IsSpace(piece) == piece = " "

\* query.split(/\s+/): the words between the runs of whitespace; a query
\* that starts or ends with whitespace gives an empty first or last word
RECURSIVE Split(_)
Split(q) ==
    IF q = <<>> THEN <<<<>>>>
    ELSE IF IsSpace(Head(q))
         THEN IF Len(q) > 1 /\ IsSpace(q[2]) THEN Split(Tail(q))
              ELSE <<<<>>>> \o Split(Tail(q))
    ELSE LET rest == Split(Tail(q))
         IN  <<<<Head(q)>> \o Head(rest)>> \o Tail(rest)

\* word.replace(/"/g, '""')
RECURSIVE EscapeQuotes(_)
EscapeQuotes(word) ==
    IF word = <<>> THEN <<>>
    ELSE (IF Head(word) = Quote THEN <<Quote, Quote>> ELSE <<Head(word)>>)
         \o EscapeQuotes(Tail(word))

\* a callback that passes AND and OR through wherever they stand
EscapeWord_AnyPosition(word, ind, arr) ==
    IF word = <<"AND">> \/ word = <<"OR">> THEN word
    ELSE <<Quote>> \o EscapeQuotes(word) \o <<Quote>>

\* the callback of map: (word, ind, arr) => ...
EscapeWord(word, ind, arr) ==
    IF (word = <<"AND">> \/ word = <<"OR">>) /\ ind # Len(arr) THEN word
    ELSE <<Quote>> \o EscapeQuotes(word) \o <<Quote>>

\* arr.join(' ')
RECURSIVE Join(_)
Join(arr) ==
    IF arr = <<>> THEN <<>>
    ELSE IF Len(arr) = 1 THEN arr[1]
    ELSE arr[1] \o <<" ">> \o Join(Tail(arr))

EscapeQuery(query) ==
    LET arr == Split(query)
    IN  Join([ind \in DOMAIN arr |-> EscapeWord(arr[ind], ind, arr)])

(* The full-text index: how fts5 reads the expression handed to MATCH and  *)
(* which names it matches (tokenize = 'porter unicode61').                 *)

Unterminated == <<"SqliteError", "unterminated string">>

SyntaxError == <<"SqliteError", "fts5: syntax error">>

\* The tokens of an fts5 expression from its i-th piece on: a string
\* "..." (in which "" is one quote), the words AND and OR, a bare word;
\* a token of kind EOF for a string that does not end. cur is the token being
\* read: <<>> between tokens, else [k |-> "STRING" | "BARE", s |-> pieces].
RECURSIVE Lex(_, _, _)
Lex(e, i, cur) ==
    IF i > Len(e)
    THEN IF cur = <<>> THEN <<>>
         ELSE IF cur[1].k = "STRING" THEN <<[k |-> "EOF", s |-> <<>>]>>
         ELSE cur
    ELSE IF cur # <<>> /\ cur[1].k = "STRING"
         THEN IF e[i] # Quote
              THEN Lex(e, i + 1, <<[cur[1] EXCEPT !.s = @ \o <<e[i]>>]>>)
              ELSE IF i < Len(e) /\ e[i + 1] = Quote
                   THEN Lex(e, i + 2, <<[cur[1] EXCEPT !.s = @ \o <<Quote>>]>>)
              ELSE <<[k |-> "PHRASE", s |-> cur[1].s]>> \o Lex(e, i + 1, <<>>)
    ELSE IF e[i] = Quote
         THEN cur \o Lex(e, i + 1, <<[k |-> "STRING", s |-> <<>>]>>)
    ELSE IF IsSpace(e[i]) THEN cur \o Lex(e, i + 1, <<>>)
    ELSE IF cur = <<>> THEN Lex(e, i + 1, <<[k |-> "BARE", s |-> <<e[i]>>]>>)
    ELSE Lex(e, i + 1, <<[cur[1] EXCEPT !.s = @ \o <<e[i]>>]>>)

\* a bare word is AND, OR or a phrase of its own
Keyword(tok) ==
    IF tok.k = "EOF" THEN tok
    ELSE IF tok.k = "BARE" /\ tok.s = <<"AND">> THEN [k |-> "AND", s |-> <<>>]
    ELSE IF tok.k = "BARE" /\ tok.s = <<"OR">> THEN [k |-> "OR", s |-> <<>>]
    ELSE [k |-> "PHRASE", s |-> tok.s]

Tokens(e) == LET t == Lex(e, 1, <<>>) IN [i \in DOMAIN t |-> Keyword(t[i])]

IsOperator(tok) == tok.k \in {"AND", "OR"}

\* expr := expr AND expr | expr OR expr | phrase phrase ... : a phrase at
\* each end and between any two operators
WellFormed(toks) ==
    /\ toks # <<>>
    /\ ~IsOperator(toks[1])
    /\ ~IsOperator(toks[Len(toks)])
    /\ \A i \in 1..(Len(toks) - 1) :
          ~(IsOperator(toks[i]) /\ IsOperator(toks[i + 1]))

\* unicode61 folds the case of a letter
Fold(piece) ==
    IF piece = "AND" THEN <<"a", "n", "d">>
    ELSE IF piece = "OR" THEN <<"o", "r">>
    ELSE <<piece>>

IsSeparator(piece) == IsSpace(piece) \/ piece = Quote

\* The terms of a text: its runs of letters, case folded. (The porter stem
\* of a word made of a, b, and, or is the word.)
RECURSIVE Terms(_, _)
Terms(text, cur) ==
    IF text = <<>> THEN IF cur = <<>> THEN <<>> ELSE <<cur>>
    ELSE IF IsSeparator(Head(text))
         THEN (IF cur = <<>> THEN <<>> ELSE <<cur>>) \o Terms(Tail(text), <<>>)
    ELSE Terms(Tail(text), cur \o Fold(Head(text)))

\* a phrase matches a text that holds its terms in a row
PhraseMatches(phrase, text) ==
    LET p == Terms(phrase, <<>>)
        t == Terms(text, <<>>)
    IN  /\ p # <<>>
        /\ \E k \in 0..(Len(t) - Len(p)) :
              \A i \in 1..Len(p) : t[k + i] = p[i]

\* the index of the next token of kind k from i on, or Len + 1
RECURSIVE Find(_, _, _)
Find(toks, i, k) ==
    IF i > Len(toks) \/ toks[i].k = k THEN i ELSE Find(toks, i + 1, k)

\* phrases in a row are all to match; one without terms is dropped, unless
\* none has terms, and then nothing matches
ListMatches(toks, text) ==
    /\ \E i \in DOMAIN toks : Terms(toks[i].s, <<>>) # <<>>
    /\ \A i \in DOMAIN toks :
          Terms(toks[i].s, <<>>) # <<>> => PhraseMatches(toks[i].s, text)

RECURSIVE AndMatches(_, _)
AndMatches(toks, text) ==
    LET n == Find(toks, 1, "AND")
    IN  /\ ListMatches(SubSeq(toks, 1, n - 1), text)
        /\ n > Len(toks) \/ AndMatches(SubSeq(toks, n + 1, Len(toks)), text)

\* AND binds tighter than OR
RECURSIVE OrMatches(_, _)
OrMatches(toks, text) ==
    LET n == Find(toks, 1, "OR")
    IN  \/ AndMatches(SubSeq(toks, 1, n - 1), text)
        \/ n <= Len(toks) /\ OrMatches(SubSeq(toks, n + 1, Len(toks)), text)

\* what "moose_name MATCH expr" throws, if it does
MatchError(expr) ==
    LET toks == Tokens(expr)
    IN  IF \E i \in DOMAIN toks : toks[i].k = "EOF" THEN Unterminated
        ELSE IF ~WellFormed(toks) THEN SyntaxError
        ELSE NoError

\* SELECT ... FROM Moose INNER JOIN (SELECT moose_name FROM MooseSearch
\*   WHERE moose_name MATCH ? ORDER BY RANK) ON name == moose_name
\* : one row for each Moose row and each matching index row of its name
JoinSearch(db, expr) ==
    UNION {{[row |-> r, copy |-> c] :
               c \in 1..CopiesIn(r.name.text, db.MooseSearch)} :
           r \in {x \in db.Moose : OrMatches(Tokens(expr), x.name.text)}}

_findMooseByQuery(db, query, offset, limit, order) ==
    IF MatchError(EscapeQuery(query)) # NoError
    THEN {[err |-> MatchError(EscapeQuery(query)), ret |-> Undefined]}
    ELSE {[err |-> NoError, ret |-> MapRows(LimitRows(s, offset, limit))] :
             s \in OrderBy(JoinSearch(db, EscapeQuery(query)), order)}

\* the outcomes of getGalleryPage: [err, ret]
getGalleryPage(db, query, offset, limit, order) ==
    IF notInt(offset) \/ notInt(limit)
    THEN {[err |-> TypeError, ret |-> Undefined]}
    ELSE IF query # <<>>
         THEN _findMooseByQuery(db, query, offset.num, limit.num,
                                NewOrder(order))
    ELSE {[err |-> NoError, ret |-> page] :
             page \in PageQuery(db, offset.num, limit.num, NewOrder(order))}

\* stmt.get(): the first row of the rows the statement yields, in an
\* order the statement leaves open; undefined when it yields none
Get(rows) == IF rows = {} THEN {Undefined} ELSE rows

MinOf(S) == IF S = {} THEN 0 ELSE CHOOSE x \in S : \A y \in S : x <= y

\* SELECT max(created) FROM Moose / SELECT min(created) FROM Moose: NULL
\* on an empty table
MaxCreated(table) ==
    IF table = {} THEN Null
    ELSE SqlInt(MaxOf({r.created.int : r \in table}))

MinCreated(table) ==
    IF table = {} THEN Null
    ELSE SqlInt(MinOf({r.created.int : r \in table}))

\* WHERE created = ( ... ): no row equals NULL
WhereCreated(table, created) ==
    IF created = Null THEN {} ELSE {r \in table : r.created = created}

\* the least integer of the width
MinInteger == -(2 ^ (RandomBits - 1))

\* every integer of the width
RANDOM_Any == MinInteger..(-MinInteger - 1)

\* RANDOM(): any integer of the width but the least one, which sqlite's
\* random() never returns
RANDOM == (MinInteger + 1)..(-MinInteger - 1)

IntegerOverflow == <<"SqliteError", "integer overflow">>

\* (ABS(RANDOM())) % (SELECT max(rowid) FROM Moose) + 1 for the value rnd
\* of RANDOM(): ABS of the least integer overflows; max(rowid) of an empty
\* table is NULL, and so are then the remainder and the sum
RandomRowid(table, rnd) ==
    IF rnd = MinInteger THEN [error |-> IntegerOverflow]
    ELSE IF table = {} THEN Null
    ELSE SqlInt(((IF rnd < 0 THEN -rnd ELSE rnd) % MaxOf(Rowids(table))) + 1)

\* getRandomMoose(): the outcomes it can have
getRandomMoose(db) ==
    UNION {LET rowid == RandomRowid(db.Moose, rnd)
           IN  IF "error" \in DOMAIN rowid
               THEN {[err |-> rowid.error, ret |-> Undefined]}
               ELSE {[err |-> NoError, ret |-> rowToMoose(row)] :
                        row \in Get({r \in db.Moose :
                                        SqlInt(r.rowid) = rowid})} :
           rnd \in RANDOM}

\* a statement that selects every row
getAnyMoose(db) == {rowToMoose(row) : row \in Get(db.Moose)}

\* getLatestMoose(): the outcomes it can have
getLatestMoose(db) ==
    {rowToMoose(row) :
        row \in Get(WhereCreated(db.Moose, MaxCreated(db.Moose)))}

\* getOldestMoose(): the outcomes it can have
getOldestMoose(db) ==
    {rowToMoose(row) :
        row \in Get(WhereCreated(db.Moose, MinCreated(db.Moose)))}

----------------------------------------------------------------------------
(* The export: MooseReadable, a Readable over the iterator of dumpDbStmt.  *)
(* A JSON text is a sequence of tokens [t |-> kind, v |-> value]; a chunk  *)
(* the stream pushes is a JSON text.                                       *)

LBracket == [t |-> "[", v |-> Null]

RBracket == [t |-> "]", v |-> Null]

Comma == [t |-> ",", v |-> Null]

\* JSON.stringify(rowToMoose(value)) of a row: the strings quoted, the
\* Date as its ISO string, a null shade as null, the flags as true / false
mooseJson(value) ==
    [t |-> "{}",
     v |-> [name     |-> [str |-> rowToMoose(value).name],
            image    |-> [str |-> rowToMoose(value).image],
            shade    |-> IF value.shade = Null THEN Null
                         ELSE [str |-> rowToMoose(value).shade],
            created  |-> [str |-> <<"ISO", rowToMoose(value).created.date.num>>],
            hd       |-> rowToMoose(value).hd,
            shaded   |-> rowToMoose(value).shaded,
            extended |-> rowToMoose(value).extended]]

\* the whole text of the chunks
RECURSIVE Concat(_)
Concat(chunks) ==
    IF chunks = <<>> THEN <<>> ELSE Head(chunks) \o Concat(Tail(chunks))

NotJson == [ok |-> FALSE, array |-> <<>>]

\* the elements of an array from text[i] on: a value, then a comma and
\* more elements, or the closing bracket that ends the text
RECURSIVE ParseElements(_, _, _)
ParseElements(text, i, acc) ==
    IF i + 1 > Len(text) \/ text[i].t # "{}" THEN NotJson
    ELSE IF text[i + 1].t = "]"
         THEN IF i + 1 = Len(text)
              THEN [ok |-> TRUE, array |-> Append(acc, text[i].v)]
              ELSE NotJson
    ELSE IF text[i + 1].t = ","
         THEN ParseElements(text, i + 2, Append(acc, text[i].v))
    ELSE NotJson

\* JSON.parse of a text that should be an array of objects
JSONparse(text) ==
    IF Len(text) < 2 \/ text[1].t # "[" THEN NotJson
    ELSE IF text[2].t = "]"
         THEN IF Len(text) = 2 THEN [ok |-> TRUE, array |-> <<>>] ELSE NotJson
    ELSE ParseElements(text, 2, <<>>)

\* the sequences that hold each element of S once
Orderings(S) ==
    {f \in [1..Cardinality(S) -> S] :
        \A i, j \in DOMAIN f : i # j => f[i] # f[j]}

\* dumpDbStmt.iterate(): an open cursor over the rows of Moose, in the
\* order the scan yields them (the statement has no ORDER BY)
Iterate(table) == {[rows |-> f, alive |-> TRUE] : f \in Orderings(table)}

\* iter.next(): the next row, or done; the cursor that reports done
\* releases itself. released counts the releases of the step.
IterNext(iter) ==
    IF iter.alive /\ iter.rows # <<>>
    THEN [iter |-> [iter EXCEPT !.rows = Tail(@)], value |-> Head(iter.rows),
          done |-> FALSE, released |-> 0]
    ELSE [iter |-> [iter EXCEPT !.alive = FALSE], value |-> Undefined,
          done |-> TRUE, released |-> IF iter.alive THEN 1 ELSE 0]

\* iter.return() that releases a cursor another call has released
IterReturn_Again(iter) ==
    [iter |-> [iter EXCEPT !.alive = FALSE], released |-> 1]

\* iter.return(): releases the cursor if it is still open
IterReturn(iter) ==
    [iter |-> [iter EXCEPT !.alive = FALSE],
     released |-> IF iter.alive THEN 1 ELSE 0]

\* what iter.next() and JSON.stringify throw
CursorError == <<"SqliteError", "cursor">>

SerializeError == <<"TypeError", "stringify">>

\* how a _read goes: well, or iter.next() throws with the cursor left open
\* ("busy") or released by the failed step ("step"), or JSON.stringify
\* throws
Faults == {"none", "busy", "step", "stringify"}

\* No stream yet. opened counts the streams reader() has made, iterators
\* the cursors that are open; the other fields are those of the current
\* stream: iter and first (its own), pushed, ended, destroyed and errored
\* (the Readable's), reads, pulled and released (the _read calls, the rows
\* iter.next() gave and the releases of its cursor).
NoReader ==
    [opened |-> 0, iterators |-> 0, iter |-> [rows |-> <<>>, alive |-> FALSE],
     first |-> TRUE, pushed |-> <<>>, ended |-> FALSE, destroyed |-> FALSE,
     errored |-> NoError, reads |-> 0, pulled |-> 0, released |-> 0]

\* this.push(chunk): a destroyed or ended stream takes no chunk
Push(r, chunk) ==
    IF r.destroyed \/ r.ended THEN r
    ELSE [r EXCEPT !.pushed = Append(@, chunk)]

\* this.push(null)
PushNull(r) == [r EXCEPT !.ended = TRUE]

\* new MooseReadable(iterator)
MooseReadable(r, iterator) ==
    Push([NoReader EXCEPT !.opened = r.opened + 1,
                          !.iterators = r.iterators + 1,
                          !.iter = iterator],
         <<LBracket>>)

\* _destroy that leaves the iterator alone
_destroy_NoReturn(r, err) == [r EXCEPT !.errored = err]

\* _destroy(err, cb)
_destroy(r, err) ==
    LET ret == IterReturn(r.iter)
    IN  [r EXCEPT !.iter = ret.iter,
                  !.released = @ + ret.released,
                  !.iterators = @ - ret.released,
                  !.errored = err]

\* this.destroy(err): Readable runs _destroy once
destroy(r, err) ==
    IF r.destroyed THEN r ELSE _destroy([r EXCEPT !.destroyed = TRUE], err)

\* a catch that drops the error
Catch_Swallow(r, e) == r

\* catch (e) { this.destroy(e); }
Catch(r, e) == destroy(r, e)

\* the stream after iter.next() returned n
Pulled(r, n) ==
    [r EXCEPT !.iter = n.iter,
              !.pulled = @ + (IF n.done THEN 0 ELSE 1),
              !.released = @ + n.released,
              !.iterators = @ - n.released]

\* a try block that never clears first
PushRow_NoComma(r, n) ==
    IF n.done THEN PushNull(Push(r, <<RBracket>>))
    ELSE Push(r, <<mooseJson(n.value)>>)

\* the try block once the row is serialized
PushRow(r, n) ==
    IF n.done THEN PushNull(Push(r, <<RBracket>>))
    ELSE IF ~r.first THEN Push(r, <<Comma, mooseJson(n.value)>>)
    ELSE [Push(r, <<mooseJson(n.value)>>) EXCEPT !.first = FALSE]

\* iter.next() called twice in one _read, the first row dropped
Advance_Twice(r) == IterNext(IterNext(r.iter).iter)

\* const { value, done } = this.iter.next()
Advance(r) == IterNext(r.iter)

\* _read()
_read(r, fault) ==
    LET r1 == [r EXCEPT !.reads = @ + 1]
        n  == Advance(r)
    IN  CASE fault = "busy" -> Catch(r1, CursorError)
          [] fault = "step" ->
                Catch([r1 EXCEPT !.iter.alive = FALSE,
                                 !.released = @ + 1,
                                 !.iterators = @ - 1], CursorError)
          [] fault = "stringify" /\ ~n.done ->
                Catch(Pulled(r1, n), SerializeError)
          [] OTHER -> PushRow(Pulled(r1, n), n)

----------------------------------------------------------------------------
(* The inputs the operations are called with. *)

Names == {<<"a">>, <<"b">>, <<"a", " ", "b">>}

Plain(name) ==
    [name |-> name, created |-> Date(Num(100)), image |-> "i1", shade |-> "",
     hd |-> FALSE, shaded |-> FALSE, extended |-> FALSE]

Shaded(name) ==
    [name |-> name, created |-> Date(Num(200)), image |-> "i2", shade |-> "s",
     hd |-> TRUE, shaded |-> TRUE, extended |-> TRUE]

\* no shade and no flags: the codec's defaults apply
Bare(name) == [name |-> name, created |-> Date(Num(100)), image |-> "i1"]

NoImage(name) == [name |-> name, created |-> Date(Num(100))]

InvalidDate(name) == [name |-> name, created |-> Date(NaN), image |-> "i1"]

NoName == [created |-> Date(Num(100)), image |-> "i1"]

\* a moose whose created is a number (a time value) and not a Date
Timed(name, created) == [name |-> name, created |-> created, image |-> "i1"]

\* the values of created the codec is handed
CreatedInputs ==
    {Date(Num(100)), Date(NaN), Num(100), Num(0), Half(100), Infinity,
     NegInfinity, NaN}

CodecInputs == {Timed(name, created) : name \in {<<"a">>, <<"b">>},
                                       created \in CreatedInputs}

ValidMeese ==
    {Plain(<<"a">>), Shaded(<<"a">>), Bare(<<"a">>), Shaded(<<"b">>),
     Plain(<<"a", " ", "b">>)}

InvalidMeese == {NoImage(<<"b">>), InvalidDate(<<"a">>), NoName}

MooseInputs == ValidMeese \cup InvalidMeese

\* what bulkSaveMoose is handed: batches of these
BulkInputs ==
    {Plain(<<"a">>), Shaded(<<"a">>), Shaded(<<"b">>), InvalidDate(<<"a">>)}

Batches == UNION {[1..n -> BulkInputs] : n \in 0..MaxBatch}

Pngs == {"png1"}

\* what getGalleryPage is called with
GalleryQueries == {<<>>, <<"a">>, <<"b">>}

Offsets == {Num(n) : n \in (-1)..MaxOffset} \cup {Half(1), NaN, Infinity}

Limits == {Num(n) : n \in (-1)..MaxLimit} \cup {Half(1), NaN, Infinity}

Orders == {"newest", "oldest", "random"}

\* the pieces of a search query
Pieces == {"a", " ", Quote, "AND", "OR"}

SearchQueries == UNION {[1..n -> Pieces] : n \in 1..MaxQueryLen}

\* an import that the searches run against
Imported == <<Plain(<<"a">>), Shaded(<<"b">>), Plain(<<"a", " ", "b">>)>>

----------------------------------------------------------------------------
(* The gallery store of the web client. A request is the call of           *)
(* getGalleryPage(age, name, page, cb) of lib/api.js: cb, which is           *)
(* getGalleryPageCallback bound to the pagination type 'init' or 'page', is *)
(* called once, with an error or with the body of the answer. A body is    *)
(* modelled by the number of meese in it, and an entry of state.gallery by *)
(* the request whose answer held its moose; the entries of state.gallery   *)
(* are kept as a bag, the order of the array being the order in which the  *)
(* blobs happened to be rendered.                                          *)

galleryPageSize == 12

\* the most requests the store sends
MaxRequests == 3

\* the sizes of the bodies the server answers with: no moose, a last page
\* that is not full, a full page
BodySizes == {0, 1, galleryPageSize}

\* the store as set up, before its first gallery-get
NewState ==
    [gallery |-> EmptyBag, galleryPage |-> Num(0),
     galleryNextPage |-> Undefined]

\* a request that was sent and is not yet answered; left is the number of
\* blobs of its answer that are still to be rendered
Request(action, pnum) ==
    [action |-> action, pnum |-> pnum, status |-> "sent", left |-> 0]

\* {name: moose.name, image: blob, url: ...} of a moose of the answer to
\* the id-th request
Entry(id) == [response |-> id]

\* emitter.on('gallery-get', ...)
gallery_get(st, reqs) ==
    [state    |-> [st EXCEPT !.galleryPage = Num(0),
                             !.galleryNextPage = Num(0)],
     requests |-> Append(reqs, Request("init", Num(0)))]

\* emitter.on('gallery-prev', (pnum = state.galleryPage - 1) => ...)
gallery_prev(st, reqs, pnum) ==
    IF st.galleryPage.num < 1 THEN [state |-> st, requests |-> reqs]
    ELSE [state    |-> [st EXCEPT !.galleryNextPage = pnum],
          requests |-> Append(reqs, Request("page", pnum))]

\* emitter.on('gallery-next', (pnum = state.galleryPage + 1) => ...)
gallery_next(st, reqs, pnum) ==
    IF BagCardinality(st.gallery) < galleryPageSize
    THEN [state |-> st, requests |-> reqs]
    ELSE [state    |-> [st EXCEPT !.galleryNextPage = pnum],
          requests |-> Append(reqs, Request("page", pnum))]

\* getGalleryPageCallback(state, emitter, action, err, body) up to the call
\* of each(), which starts the rendering of every moose of the body
getGalleryPageCallback(st, reqs, id, err, body) ==
    IF err \/ body = 0
    THEN [state    |-> IF reqs[id].action = "init"
                       THEN [st EXCEPT !.gallery = EmptyBag] ELSE st,
          requests |-> [reqs EXCEPT ![id].status = "answered"]]
    ELSE [state    |-> [st EXCEPT !.gallery = EmptyBag],
          requests |-> [reqs EXCEPT ![id].status = "rendering",
                                    ![id].left = body]]

\* the callback each() calls once every moose of the body is rendered
Rendered(st, action) ==
    IF action = "page" THEN [st EXCEPT !.galleryPage = st.galleryNextPage]
    ELSE st

\* the callback of generateGalleryMoose / generateGalleryShadedMoose for a
\* moose of the answer to the id-th request: state.gallery.push(...); cb()
PushBlob(st, reqs, id) ==
    LET pushed == [st EXCEPT !.gallery = @ (+) SetToBag({Entry(id)})]
        left   == reqs[id].left - 1
    IN  [state    |-> IF left = 0 THEN Rendered(pushed, reqs[id].action)
                      ELSE pushed,
         requests |-> [reqs EXCEPT ![id].left = left,
                                   ![id].status = IF left = 0 THEN "answered"
                                                  ELSE "rendering"]]

----------------------------------------------------------------------------
(* The state machine. The calls are synchronous: call holds the call that  *)
(* has just returned (its arguments, the error it threw, what it returned  *)
(* and what it logged), and the next call is made once the caller has      *)
(* taken that result.                                                      *)

thisDb == [Moose |-> Moose, MooseSearch |-> MooseSearch]

Called(op, args, err, ret, warned) ==
    [op |-> op, args |-> args, err |-> err, ret |-> ret, warned |-> warned]

Idle == Called("", <<>>, NoError, Undefined, <<>>)

Init ==
    /\ Moose = {}
    /\ MooseSearch = EmptyBag
    /\ call = Idle
    /\ reader = NoReader
    /\ state = NewState
    /\ requests = <<>>

Return ==
    /\ call.op # ""
    /\ call' = Idle
    /\ UNCHANGED <<Moose, MooseSearch, reader, state, requests>>

Busy == <<"TypeError", "This database connection is busy executing a query">>

\* a connection that runs a statement that writes whatever cursors it has
\* open
RunWrite_Unsafe(r, db, result) == result

\* stmt.run() of a statement that writes, on the connection of this.db: the
\* connection refuses it while one of its iterators is open, and result
\* is what the statement does otherwise
RunWrite(r, db, result) ==
    IF r.iterators > 0 THEN [err |-> Busy, db |-> db] ELSE result

SaveMoose(moose) ==
    LET r == RunWrite(reader, thisDb, saveMoose(thisDb, moose))
    IN  /\ call.op = ""
        /\ MaxOf(Rowids(r.db.Moose)) <= MaxRowid
        /\ Moose' = r.db.Moose
        /\ MooseSearch' = r.db.MooseSearch
        /\ call' = Called("saveMoose", <<moose>>, r.err,
                          IF r.err = NoError THEN [changes |-> 1]
                          ELSE Undefined, <<>>)
        /\ UNCHANGED <<reader, state, requests>>

BulkSaveMoose(meese) ==
    LET r == bulkSaveMoose(thisDb, meese)
    IN  /\ call.op = ""
        /\ MaxOf(Rowids(r.db.Moose)) <= MaxRowid
        /\ Moose' = r.db.Moose
        /\ MooseSearch' = r.db.MooseSearch
        /\ call' = Called("bulkSaveMoose", <<meese>>, r.err, Undefined,
                          r.warned)
        /\ UNCHANGED <<reader, state, requests>>

GetMooseByName(name) ==
    /\ call.op = ""
    /\ call' = Called("getMooseByName", <<name>>, NoError,
                      getMooseByName(thisDb, name), <<>>)
    /\ UNCHANGED <<Moose, MooseSearch, reader, state, requests>>

GetMoosePng(name) ==
    /\ call.op = ""
    /\ call' = Called("getMoosePng", <<name>>, NoError,
                      getMoosePng(thisDb, name), <<>>)
    /\ UNCHANGED <<Moose, MooseSearch, reader, state, requests>>

SaveMoosePng(name, png) ==
    LET after == saveMoosePng(thisDb, name, png)
    IN  /\ call.op = ""
        /\ Moose' = after.Moose
        /\ MooseSearch' = after.MooseSearch
        /\ call' = Called("saveMoosePng", <<name, png>>, NoError,
                          RunInfo(thisDb, name, after), <<>>)
        /\ UNCHANGED <<reader, state, requests>>

DeleteMoose(name) ==
    LET r == RunWrite(reader, thisDb,
                      [err |-> NoError, db |-> deleteMoose(thisDb, name)])
    IN  /\ call.op = ""
        /\ Moose' = r.db.Moose
        /\ MooseSearch' = r.db.MooseSearch
        /\ call' = Called("deleteMoose", <<name>>, r.err,
                          IF r.err = NoError
                          THEN RunInfo(thisDb, name, r.db) ELSE Undefined,
                          <<>>)
        /\ UNCHANGED <<reader, state, requests>>

GetGalleryPage(query, offset, limit, order) ==
    /\ call.op = ""
    /\ \E out \in getGalleryPage(thisDb, query, offset, limit, order) :
          call' = Called("getGalleryPage", <<query, offset, limit, order>>,
                         out.err, out.ret, <<>>)
    /\ UNCHANGED <<Moose, MooseSearch, reader, state, requests>>

GetRandomMoose ==
    /\ call.op = ""
    /\ \E out \in getRandomMoose(thisDb) :
          call' = Called("getRandomMoose", <<>>, out.err, out.ret, <<>>)
    /\ UNCHANGED <<Moose, MooseSearch, reader, state, requests>>

GetLatestMoose ==
    /\ call.op = ""
    /\ \E ret \in getLatestMoose(thisDb) :
          call' = Called("getLatestMoose", <<>>, NoError, ret, <<>>)
    /\ UNCHANGED <<Moose, MooseSearch, reader, state, requests>>

GetOldestMoose ==
    /\ call.op = ""
    /\ \E ret \in getOldestMoose(thisDb) :
          call' = Called("getOldestMoose", <<>>, NoError, ret, <<>>)
    /\ UNCHANGED <<Moose, MooseSearch, reader, state, requests>>

Next ==
    \/ \E moose \in MooseInputs : SaveMoose(moose)
    \/ \E meese \in Batches : BulkSaveMoose(meese)
    \/ \E name \in Names : GetMooseByName(name)
    \/ \E name \in Names : GetMoosePng(name)
    \/ \E name \in Names, png \in Pngs : SaveMoosePng(name, png)
    \/ \E name \in Names : DeleteMoose(name)
    \/ Return

Spec == Init /\ [][Next]_vars

(* Browsing and searching a gallery that saves and deletes change. *)

NextGallery ==
    \/ \E moose \in ValidMeese : SaveMoose(moose)
    \/ \E name \in Names : DeleteMoose(name)
    \/ \E name \in Names : GetMooseByName(name)
    \/ \E query \in GalleryQueries, offset \in Offsets, limit \in Limits,
          order \in Orders : GetGalleryPage(query, offset, limit, order)
    \/ GetRandomMoose
    \/ GetLatestMoose
    \/ GetOldestMoose
    \/ Return

SpecGallery == Init /\ [][NextGallery]_vars

(* Saving meese of every kind of created, and reading them back. *)

NextCodec ==
    \/ \E moose \in CodecInputs : SaveMoose(moose)
    \/ \E name \in Names : GetMooseByName(name)
    \/ \E name \in Names : DeleteMoose(name)
    \/ Return

SpecCodec == Init /\ [][NextCodec]_vars

(* Searching an imported collection with every query of the pieces. *)

InitSearch ==
    /\ Moose = bulkSaveMoose([Moose |-> {}, MooseSearch |-> EmptyBag],
                             Imported).db.Moose
    /\ MooseSearch = bulkSaveMoose([Moose |-> {}, MooseSearch |-> EmptyBag],
                                   Imported).db.MooseSearch
    /\ call = Idle
    /\ reader = NoReader
    /\ state = NewState
    /\ requests = <<>>

NextSearch ==
    \/ \E query \in SearchQueries, order \in {"newest", "oldest"} :
          GetGalleryPage(query, Num(0), Num(MaxLimit), order)
    \/ Return

SpecSearch == InitSearch /\ [][NextSearch]_vars

(* Exporting a collection: streams are opened one after the other, read  *)
(* by the Readable on the consumer's demand, and destroyed by the consumer *)
(* or, once ended, by the Readable itself.                                 *)

InitExport ==
    /\ \E k \in 0..Len(Imported) :
          /\ Moose = bulkSaveMoose([Moose |-> {}, MooseSearch |-> EmptyBag],
                                   SubSeq(Imported, 1, k)).db.Moose
          /\ MooseSearch =
                bulkSaveMoose([Moose |-> {}, MooseSearch |-> EmptyBag],
                              SubSeq(Imported, 1, k)).db.MooseSearch
    /\ call = Idle
    /\ reader = NoReader
    /\ state = NewState
    /\ requests = <<>>

\* db.reader(), once the stream before it is closed
Reader ==
    /\ reader.opened < MaxReaders
    /\ reader.opened = 0 \/ reader.destroyed
    /\ \E iterator \in Iterate(Moose) :
          reader' = MooseReadable(reader, iterator)
    /\ UNCHANGED <<Moose, MooseSearch, call, state, requests>>

\* the Readable calls _read when the consumer wants data; it calls it on
\* no ended and no destroyed stream
Read(fault) ==
    /\ reader.opened > 0
    /\ ~reader.ended
    /\ ~reader.destroyed
    /\ fault = "step" => reader.iter.alive
    /\ reader' = _read(reader, fault)
    /\ UNCHANGED <<Moose, MooseSearch, call, state, requests>>

\* the consumer calls stream.destroy()
Destroy ==
    /\ reader.opened > 0
    /\ ~reader.destroyed
    /\ reader' = destroy(reader, NoError)
    /\ UNCHANGED <<Moose, MooseSearch, call, state, requests>>

\* the Readable destroys a stream that has ended (autoDestroy)
EndDestroy ==
    /\ reader.opened > 0
    /\ reader.ended
    /\ ~reader.destroyed
    /\ reader' = destroy(reader, NoError)
    /\ UNCHANGED <<Moose, MooseSearch, call, state, requests>>

NextExport ==
    \/ Reader
    \/ \E fault \in Faults : Read(fault)
    \/ Destroy
    \/ EndDestroy

SpecExport == InitExport /\ [][NextExport]_vars

\* the same, with the Readable's own destroy of an ended stream scheduled
SpecExportLive == SpecExport /\ WF_vars(EndDestroy)

(* Exporting a collection that is saved to and deleted from while the     *)
(* streams are read.                                                       *)

NextExportWrites ==
    \/ Reader
    \/ \E fault \in Faults : Read(fault)
    \/ Destroy
    \/ EndDestroy
    \/ \E moose \in {Plain(<<"a">>), Shaded(<<"b">>)} : SaveMoose(moose)
    \/ \E name \in {<<"a">>, <<"b">>} : DeleteMoose(name)
    \/ Return

SpecExportWrites == InitExport /\ [][NextExportWrites]_vars

(* The gallery store: the user asks for the gallery, the previous and the  *)
(* next page; the answers arrive and the blobs are rendered in any order.  *)
(* gallery-age and gallery-name end in gallery-get.                        *)

InitStore ==
    /\ Moose = {}
    /\ MooseSearch = EmptyBag
    /\ call = Idle
    /\ reader = NoReader
    /\ state = gallery_get(NewState, <<>>).state
    /\ requests = gallery_get(NewState, <<>>).requests

GalleryGet ==
    /\ Len(requests) < MaxRequests
    /\ state' = gallery_get(state, requests).state
    /\ requests' = gallery_get(state, requests).requests
    /\ UNCHANGED <<Moose, MooseSearch, call, reader>>

GalleryPrev ==
    LET pnum == Num(state.galleryPage.num - 1)
    IN  /\ Len(requests) < MaxRequests
        /\ state' = gallery_prev(state, requests, pnum).state
        /\ requests' = gallery_prev(state, requests, pnum).requests
        /\ UNCHANGED <<Moose, MooseSearch, call, reader>>

GalleryNext ==
    LET pnum == Num(state.galleryPage.num + 1)
    IN  /\ Len(requests) < MaxRequests
        /\ state' = gallery_next(state, requests, pnum).state
        /\ requests' = gallery_next(state, requests, pnum).requests
        /\ UNCHANGED <<Moose, MooseSearch, call, reader>>

\* the answer to the id-th request arrives
Answer(id, err, body) ==
    /\ requests[id].status = "sent"
    /\ state' = getGalleryPageCallback(state, requests, id, err, body).state
    /\ requests' =
           getGalleryPageCallback(state, requests, id, err, body).requests
    /\ UNCHANGED <<Moose, MooseSearch, call, reader>>

\* a blob of the answer to the id-th request is ready
Render(id) ==
    /\ requests[id].status = "rendering"
    /\ state' = PushBlob(state, requests, id).state
    /\ requests' = PushBlob(state, requests, id).requests
    /\ UNCHANGED <<Moose, MooseSearch, call, reader>>

NextStore ==
    \/ GalleryGet
    \/ GalleryPrev
    \/ GalleryNext
    \/ \E id \in DOMAIN requests :
          \/ Answer(id, TRUE, 0)
          \/ \E body \in BodySizes : Answer(id, FALSE, body)
    \/ \E id \in DOMAIN requests : Render(id)

SpecStore == InitStore /\ [][NextStore]_vars

----------------------------------------------------------------------------
(* The claims. m is the moose a save was called with, batch the meese a    *)
(* bulk save was called with.                                              *)

RowOf(table, name) == CHOOSE r \in table : r.name.text = name

\* the seven columns of a stored row
Columns(r) ==
    [name |-> r.name, created |-> r.created, image |-> r.image,
     shade |-> r.shade, hd |-> r.hd, shaded |-> r.shaded,
     extended |-> r.extended]

\* a moose with a name, an integer created, an image, a shade and the
\* three booleans
IsValidMoose(m) ==
    /\ DOMAIN m = {"name", "created", "image", "shade", "hd", "shaded",
                   "extended"}
    /\ m.name # <<>>
    /\ "num" \in DOMAIN m.created.date

\* the insert of m can fail on the name's uniqueness only
PassesNotNull(m) ==
    LET row == mooseToRow(m)
    IN  row.name # Null /\ row.created # Null /\ row.image # Null

\* C1: after any sequence of saveMoose, bulkSaveMoose, deleteMoose and
\* saveMoosePng calls, failed ones included, the names in the search index
\* are the names in the Moose table, each stored name has exactly one
\* index entry (and one row).
C1_IndexMirrorsTable ==
    /\ BagToSet(MooseSearch) = StoredNames(Moose)
    /\ \A n \in StoredNames(Moose) :
          /\ CopiesIn(n, MooseSearch) = 1
          /\ Cardinality({r \in Moose : r.name.text = n}) = 1

\* a delete has removed one of several records
C1_Witness ==
    /\ call.op = "deleteMoose"
    /\ call.ret.changes = 1
    /\ Cardinality(Moose) = 2

\* C2: for every valid moose m whose name is not stored, saveMoose(m)
\* succeeds, getMooseByName(m.name) then returns a record equal to m in
\* name, created, image, shade, hd, shaded and extended, and
\* getMoosePng(m.name) is absent (null).
C2_SaveThenGet ==
    [][(/\ call'.op = "saveMoose"
        /\ IsValidMoose(call'.args[1])
        /\ call'.args[1].name \notin StoredNames(Moose))
       => (/\ call'.err = NoError
           /\ getMooseByName(thisDb', call'.args[1].name) = call'.args[1]
           /\ getMoosePng(thisDb', call'.args[1].name) = Null)]_vars

\* a shaded moose was saved beside another record
C2_Witness ==
    /\ call.op = "saveMoose"
    /\ call.err = NoError
    /\ call.args[1] = Shaded(<<"b">>)
    /\ Cardinality(Moose) = 2

\* C3, as claimed: saveMoose(m) when a record named m.name exists fails
\* with the duplicate-key error and leaves the Moose table (fields, png,
\* every other record) and the search index unchanged.
C3_DuplicateKeyAlways ==
    [][(/\ call'.op = "saveMoose"
        /\ "name" \in DOMAIN call'.args[1]
        /\ call'.args[1].name \in StoredNames(Moose))
       => (/\ call'.err = UniqueName
           /\ Moose' = Moose
           /\ MooseSearch' = MooseSearch)]_vars

\* C3, amended: saveMoose(m) when a record named m.name exists fails and
\* leaves the Moose table and the search index unchanged; the error is the
\* duplicate-key error when m has a valid created and an image, and the
\* NOT NULL error of created or image when m lacks one.
C3_DuplicateFails ==
    [][(/\ call'.op = "saveMoose"
        /\ "name" \in DOMAIN call'.args[1]
        /\ call'.args[1].name \in StoredNames(Moose))
       => (/\ call'.err \in {UniqueName, NotNull("Moose.created"),
                             NotNull("Moose.image")}
           /\ PassesNotNull(call'.args[1]) <=> call'.err = UniqueName
           /\ Moose' = Moose
           /\ MooseSearch' = MooseSearch)]_vars

\* a save of the name of a record that has a png failed as a duplicate
C3_Witness ==
    /\ call.op = "saveMoose"
    /\ call.err = UniqueName
    /\ RowOf(Moose, call.args[1].name).png # Null
    /\ Columns(RowOf(Moose, call.args[1].name)) # mooseToRow(call.args[1])

\* the first index of a moose named n in the batch
FirstOf(batch, n) ==
    CHOOSE i \in DOMAIN batch :
        /\ batch[i].name = n
        /\ \A j \in 1..(i - 1) : batch[j].name # n

\* C4: a bulkSaveMoose in which inserts can fail on the name's uniqueness
\* only does not raise; afterwards the store holds every record it held,
\* unchanged, and for each new name of the batch exactly one record: the
\* first moose of that name in the batch. Records before and after a
\* skipped duplicate are persisted.
C4_BulkSkipsDuplicates ==
    [][(/\ call'.op = "bulkSaveMoose"
        /\ \A i \in DOMAIN call'.args[1] : PassesNotNull(call'.args[1][i]))
       => LET batch == call'.args[1]
              names == {batch[i].name : i \in DOMAIN batch}
          IN  /\ call'.err = NoError
              /\ Moose \subseteq Moose'
              /\ StoredNames(Moose') = StoredNames(Moose) \cup names
              /\ Cardinality(Moose') = Cardinality(StoredNames(Moose'))
              /\ \A n \in names \ StoredNames(Moose) :
                    /\ Columns(RowOf(Moose', n))
                          = mooseToRow(batch[FirstOf(batch, n)])
                    /\ RowOf(Moose', n).png = Null]_vars

\* a batch whose second moose was skipped as a duplicate of the first,
\* with the third persisted
C4_Witness ==
    /\ call.op = "bulkSaveMoose"
    /\ call.err = NoError
    /\ call.args[1] = <<Plain(<<"a">>), Shaded(<<"a">>), Shaded(<<"b">>)>>
    /\ call.warned = <<<<"a">>>>
    /\ StoredNames(Moose) = {<<"a">>, <<"b">>}

\* the first moose of the batch whose insert fails on a NOT NULL column
FirstFailing(batch) ==
    CHOOSE i \in DOMAIN batch :
        /\ ~PassesNotNull(batch[i])
        /\ \A j \in 1..(i - 1) : PassesNotNull(batch[j])

\* C5: if an insert of bulkSaveMoose fails for another reason than the
\* name's uniqueness (a null created, a missing image), the call raises
\* that error and the whole batch is rolled back: the Moose table and the
\* search index are as before the call.
C5_BulkRollsBack ==
    [][(/\ call'.op = "bulkSaveMoose"
        /\ \E i \in DOMAIN call'.args[1] : ~PassesNotNull(call'.args[1][i]))
       => /\ \E i \in DOMAIN call'.args[1] :
                /\ i = FirstFailing(call'.args[1])
                /\ call'.err
                      = InsertMoose(thisDb, mooseToRow(call'.args[1][i])).err
          /\ call'.err # NoError
          /\ call'.err # UniqueName
          /\ Moose' = Moose
          /\ MooseSearch' = MooseSearch]_vars

\* a batch failed after it had inserted a record of a name not stored
C5_Witness ==
    /\ call.op = "bulkSaveMoose"
    /\ call.err = NotNull("Moose.created")
    /\ Len(call.args[1]) = 2
    /\ call.args[1][1] = Shaded(<<"b">>)
    /\ <<"b">> \notin StoredNames(Moose)
    /\ Moose # {}

\* the call was getGalleryPage(query, offset, limit, order)
IsGallery == call.op = "getGalleryPage"

\* a finite, non-negative integer
IsPageNumber(x) == ("num" \in DOMAIN x) /\ x.num >= 0

CreatedOf(moose) == moose.created.date.num

\* C6: after deleteMoose(name), getMooseByName(name) returns absent and no
\* search result of getGalleryPage holds a record of that name, until a
\* record of that name is saved again. Stated step by step: a delete
\* leaves the name not stored; a name that is not stored stays so unless
\* the step is a saveMoose or a bulkSaveMoose of a moose of that name; and
\* while a name is not stored getMooseByName returns undefined for it and
\* no page of a search holds it.
C6_DeletedStaysAbsent ==
    [][/\ call'.op = "deleteMoose"
          => call'.args[1] \notin StoredNames(Moose')
       /\ \A n \in StoredNames(Moose') \ StoredNames(Moose) :
             \/ call'.op = "saveMoose" /\ call'.args[1].name = n
             \/ /\ call'.op = "bulkSaveMoose"
                /\ \E i \in DOMAIN call'.args[1] : call'.args[1][i].name = n
       /\ \A n \in Names \ StoredNames(Moose') :
             /\ getMooseByName(thisDb', n) = Undefined
             /\ (call'.op = "getMooseByName" /\ call'.args[1] = n)
                   => call'.ret = Undefined
             /\ (call'.op = "getGalleryPage" /\ call'.err = NoError)
                   => \A i \in DOMAIN call'.ret : call'.ret[i].name # n]_vars

\* a delete has removed the record named a and left the one named a b,
\* which a search for a still matches
C6_Witness ==
    /\ call.op = "deleteMoose"
    /\ call.args[1] = <<"a">>
    /\ call.ret.changes = 1
    /\ StoredNames(Moose) = {<<"a", " ", "b">>}

\* C7, as claimed: getGalleryPage rejects every offset or limit that is
\* not a finite, non-negative integer with the invalid-argument error (so
\* offset = -1 and limit = 1.5 both fail).
C7_RejectsInvalidPage ==
    (IsGallery /\ ~(IsPageNumber(call.args[2]) /\ IsPageNumber(call.args[3])))
        => call.err = TypeError

\* C8: for every query, empty or not, the list getGalleryPage returns is
\* sorted by created: non-decreasing when order is 'oldest', non-increasing
\* when it is 'newest' or anything else.
C8_PageSorted ==
    (IsGallery /\ call.err = NoError)
        => \A i, j \in DOMAIN call.ret :
              i < j => IF call.args[4] = "oldest"
                       THEN CreatedOf(call.ret[i]) <= CreatedOf(call.ret[j])
                       ELSE CreatedOf(call.ret[i]) >= CreatedOf(call.ret[j])

\* a search in an order that is neither 'newest' nor 'oldest' returned
\* two records of different created
C8_Witness ==
    /\ IsGallery
    /\ call.err = NoError
    /\ call.args[1] # <<>>
    /\ call.args[4] = "random"
    /\ Len(call.ret) = 2
    /\ CreatedOf(call.ret[1]) > CreatedOf(call.ret[2])

\* the rows that come before row r in every arrangement sorted in the
\* order asked for, and those that may come before it
Before(r, order) ==
    {x \in Moose : IF order = "oldest" THEN x.created.int < r.created.int
                   ELSE x.created.int > r.created.int}

NotAfter(r, order) ==
    {x \in Moose : IF order = "oldest" THEN x.created.int <= r.created.int
                   ELSE x.created.int >= r.created.int}

\* C9: with an empty query and a valid offset and limit, getGalleryPage
\* returns the records at the positions offset .. offset+limit-1 of the
\* collection sorted by created in the order asked for: at most limit
\* records, none when offset is at or past the number of records.
C9_PageIsSlice ==
    (IsGallery /\ call.args[1] = <<>>
       /\ IsPageNumber(call.args[2]) /\ IsPageNumber(call.args[3]))
    => LET offset == call.args[2].num
           limit == call.args[3].num
           left == IF Cardinality(Moose) > offset
                   THEN Cardinality(Moose) - offset ELSE 0
       IN  /\ call.err = NoError
           /\ Len(call.ret) = IF limit < left THEN limit ELSE left
           /\ \A i, j \in DOMAIN call.ret :
                 i # j => call.ret[i].name # call.ret[j].name
           /\ \A i \in DOMAIN call.ret :
                 /\ call.ret[i].name \in StoredNames(Moose)
                 /\ call.ret[i]
                       = rowToMoose(RowOf(Moose, call.ret[i].name))
                 /\ Cardinality(Before(RowOf(Moose, call.ret[i].name),
                                       call.args[4])) < offset + i
                 /\ Cardinality(NotAfter(RowOf(Moose, call.ret[i].name),
                                         call.args[4])) >= offset + i

\* with a (created 100) and b (created 200) stored, offset 1, limit 1,
\* newest gave [a]
C9_Witness ==
    /\ IsGallery
    /\ call.args = <<<<>>, Num(1), Num(1), "newest">>
    /\ {<<r.name.text, r.created.int>> : r \in Moose}
          = {<<<<"a">>, 100>>, <<<<"b">>, 200>>}
    /\ Len(call.ret) = 1
    /\ call.ret[1].name = <<"a">>

\* the query holds a double quote, or AND / OR as a word that is not the
\* last one
HasQuoteOrConnector(query) ==
    \/ \E i \in DOMAIN query : query[i] = Quote
    \/ \E i \in 1..(Len(Split(query)) - 1) :
          Split(query)[i] \in {<<"AND">>, <<"OR">>}

\* C10, as claimed: for every query that holds double quotes or the words
\* AND / OR in a non-final position, getGalleryPage(query, 0, N, order)
\* does not throw.
C10_SearchNeverThrows ==
    (IsGallery /\ HasQuoteOrConnector(call.args[1])) => call.err = NoError

\* a stream exists and has pushed its end-of-stream
ExportComplete == reader.opened > 0 /\ reader.ended

\* C11: a complete export of a store of K records has pushed, in order,
\* '[', the K JSON objects of the stored records, the first without a comma
\* and each later one after a single comma, then ']', then end-of-stream;
\* the whole text parses as a JSON array of length K ('[]' when K = 0)
\* that holds the stored records.
C11_ExportIsJsonArray ==
    ExportComplete =>
        LET K    == Cardinality(Moose)
            out  == reader.pushed
            json == JSONparse(Concat(out))
        IN  /\ Len(out) = K + 2
            /\ out[1] = <<LBracket>>
            /\ out[K + 2] = <<RBracket>>
            /\ \A i \in 2..(K + 1) :
                  IF i = 2
                  THEN Len(out[i]) = 1 /\ out[i][1].t = "{}"
                  ELSE /\ Len(out[i]) = 2
                       /\ out[i][1].t = ","
                       /\ out[i][2].t = "{}"
            /\ json.ok
            /\ Len(json.array) = K
            /\ {json.array[i] : i \in 1..K} = {mooseJson(r).v : r \in Moose}
            /\ K = 0 => Concat(out) = <<LBracket, RBracket>>

\* an export of three records ran to its end
C11_Witness ==
    /\ ExportComplete
    /\ Cardinality(Moose) = 3
    /\ reader.pulled = 3
    /\ Len(reader.pushed) = 5

\* a stream exists and is finished or destroyed
StreamOver == reader.opened > 0 /\ (reader.ended \/ reader.destroyed)

\* C12: however an export stream ends (it is exhausted, the consumer
\* destroys it before that, even before the first read, or a read throws),
\* its cursor is eventually released: no cursor stays open for a finished
\* or destroyed stream.
C12_CursorReleased == StreamOver ~> (reader.iterators = 0)

\* a second stream was destroyed before its first read, its cursor over a
\* non-empty table released by that
C12_Witness ==
    /\ reader.opened = 2
    /\ reader.destroyed
    /\ reader.reads = 0
    /\ reader.iter.rows # <<>>
    /\ ~reader.iter.alive
    /\ reader.iterators = 0

\* C13: the cursor of an export stream is released exactly once over the
\* stream's life: never twice, and once as soon as the stream is finished
\* or destroyed, whether it ended by exhaustion (and was then destroyed by
\* the Readable) or was terminated early.
C13_ReleasedOnce ==
    /\ reader.released <= 1
    /\ StreamOver => reader.released = 1
    /\ (reader.opened > 0 /\ ~StreamOver) => reader.released = 0
    /\ reader.iterators \in {0, 1}

\* a stream was read to exhaustion, which released its cursor, and was then
\* destroyed, which called iter.return() on the released cursor
C13_Witness ==
    /\ reader.ended
    /\ reader.destroyed
    /\ reader.pulled = 2
    /\ reader.released = 1

\* C14: the export is pull-based. Each read request (_read call) advances
\* the cursor by one row at most, and by exactly one while rows remain, so
\* the rows pulled never exceed the read requests; no row is pulled once
\* the cursor has reported exhaustion or the stream is destroyed, and none
\* without a read request.
C14_PullBased ==
    [][/\ reader.pulled <= reader.reads
       /\ reader'.pulled <= reader'.reads
       /\ reader'.opened = reader.opened =>
             /\ reader'.pulled - reader.pulled
                   \in {0, reader'.reads - reader.reads}
             /\ reader'.reads - reader.reads \in {0, 1}
             /\ reader'.pulled > reader.pulled =>
                   /\ ~reader.ended
                   /\ ~reader.destroyed
                   /\ reader.iter.alive
                   /\ reader'.iter.rows = Tail(reader.iter.rows)
             /\ (reader'.reads > reader.reads /\ reader.iter.rows # <<>>
                 /\ reader'.errored = NoError) =>
                   reader'.pulled = reader.pulled + 1]_vars

\* three read requests have pulled the three rows of the table, and the
\* stream has not asked the cursor whether more follow
C14_Witness ==
    /\ reader.opened > 0
    /\ reader.reads = 3
    /\ reader.pulled = 3
    /\ ~reader.ended
    /\ ~reader.destroyed
    /\ reader.iter.alive

\* the stream carries an error
Failed(r) == r.errored # NoError

\* C15: a _read in which iter.next() or JSON.stringify throws pushes
\* nothing and fails the stream with that error; a failed stream is
\* destroyed, has not pushed ']' or end-of-stream, pushes nothing later,
\* and keeps the chunks it had pushed.
C15_ErrorFailsStream ==
    [][reader'.opened = reader.opened =>
          /\ (reader'.reads > reader.reads
              /\ Len(reader'.pushed) = Len(reader.pushed)) =>
                /\ Failed(reader')
                /\ reader'.errored =
                      IF reader'.pulled > reader.pulled THEN SerializeError
                      ELSE CursorError
          /\ Failed(reader') =>
                /\ reader'.destroyed
                /\ ~reader'.ended
                /\ reader'.pushed = reader.pushed
                /\ reader'.pushed[Len(reader'.pushed)] # <<RBracket>>
          /\ Failed(reader) =>
                /\ reader'.errored = reader.errored
                /\ reader'.reads = reader.reads]_vars

\* JSON.stringify threw on the second row: the stream has failed with
\* '[' and the first object pushed
C15_Witness ==
    /\ reader.errored = SerializeError
    /\ reader.pulled = 2
    /\ Len(reader.pushed) = 2
    /\ reader.destroyed

\* the created of the stored rows
StoredCreated == {r.created.int : r \in Moose}

\* C16: getLatestMoose returns a stored record whose created is the
\* greatest created of the stored records, getOldestMoose one whose created
\* is the least; each returns undefined exactly when the store is empty.
C16_LatestAndOldest ==
    call.op \in {"getLatestMoose", "getOldestMoose"} =>
        /\ call.err = NoError
        /\ (call.ret = Undefined) <=> (Moose = {})
        /\ Moose # {} =>
              /\ \E r \in Moose : call.ret = rowToMoose(r)
              /\ call.op = "getLatestMoose" =>
                    \A c \in StoredCreated : c <= CreatedOf(call.ret)
              /\ call.op = "getOldestMoose" =>
                    \A c \in StoredCreated : CreatedOf(call.ret) <= c

\* with a created 100 and b created 200 stored, getLatestMoose returned b
C16_Witness ==
    /\ call.op = "getLatestMoose"
    /\ StoredNames(Moose) = {<<"a">>, <<"b">>}
    /\ StoredCreated = {100, 200}
    /\ call.ret.name = <<"b">>

\* the state after the step, as a database
thisDbNext == [Moose |-> Moose', MooseSearch |-> MooseSearch']

\* C17: saveMoosePng(name, bytes) raises nothing and leaves the search
\* index unchanged. On a stored name it makes getMoosePng(name) return
\* bytes and changes only that row's png: its seven other columns and its
\* rowid, and every other row, are unchanged. On a name that is not stored
\* it changes nothing.
C17_PngOnly ==
    [][call'.op = "saveMoosePng" =>
          LET name  == call'.args[1]
              bytes == call'.args[2]
          IN  /\ call'.err = NoError
              /\ MooseSearch' = MooseSearch
              /\ name \notin StoredNames(Moose) =>
                    /\ Moose' = Moose
                    /\ call'.ret.changes = 0
                    /\ getMoosePng(thisDbNext, name) = Undefined
              /\ name \in StoredNames(Moose) =>
                    /\ getMoosePng(thisDbNext, name) = SqlBlob(bytes)
                    /\ Moose' = (Moose \ {RowOf(Moose, name)})
                                   \cup {[RowOf(Moose, name)
                                            EXCEPT !.png = SqlBlob(bytes)]}
                    /\ getMooseByName(thisDbNext, name)
                          = getMooseByName(thisDb, name)
                    /\ \A r \in Moose : r.name.text # name => r \in Moose']_vars

\* a png was saved for a, stored without one next to another record that
\* still has none
C17_Witness ==
    /\ call.op = "saveMoosePng"
    /\ call.args[1] = <<"a">>
    /\ call.ret.changes = 1
    /\ getMoosePng(thisDb, <<"a">>) = SqlBlob("png1")
    /\ \E r \in Moose : r.name.text # <<"a">> /\ r.png = Null

\* C18: deleteMoose(name) for a name that is not stored raises nothing and
\* leaves the Moose table, the rowids of its rows included, and the search
\* index unchanged.
C18_DeleteAbsentIsNoOp ==
    [][(call'.op = "deleteMoose" /\ call'.args[1] \notin StoredNames(Moose))
          => /\ call'.err = NoError
             /\ call'.ret.changes = 0
             /\ Moose' = Moose
             /\ {<<r.name, r.rowid>> : r \in Moose'}
                   = {<<r.name, r.rowid>> : r \in Moose}
             /\ MooseSearch' = MooseSearch]_vars

\* b, not stored, was deleted from a table of two rows
C18_Witness ==
    /\ call.op = "deleteMoose"
    /\ call.args[1] = <<"b">>
    /\ call.ret.changes = 0
    /\ StoredNames(Moose) = {<<"a">>, <<"a", " ", "b">>}

\* C19: while a record exists its name, created, image, shade, hd, shaded
\* and extended never change, whatever saveMoose (failing duplicates
\* included), bulkSaveMoose, saveMoosePng and deleteMoose of other names
\* do; a record disappears only by deleteMoose of its name.
C19_FieldsImmutable ==
    [][\A n \in StoredNames(Moose) :
          IF n \in StoredNames(Moose')
          THEN /\ Columns(RowOf(Moose', n)) = Columns(RowOf(Moose, n))
               /\ getMooseByName(thisDbNext, n) = getMooseByName(thisDb, n)
          ELSE /\ call'.op = "deleteMoose"
               /\ call'.args[1] = n]_vars

\* a was deleted while b, a row with a png, is stored at rowid 1
C19_Witness ==
    /\ call.op = "deleteMoose"
    /\ call.args[1] = <<"a">>
    /\ call.ret.changes = 1
    /\ \E r \in Moose :
          /\ r.name.text = <<"b">>
          /\ r.rowid = 1
          /\ r.png # Null

\* C20: getRandomMoose on an empty store returns undefined and raises
\* nothing.
C20_RandomOnEmpty ==
    (call.op = "getRandomMoose" /\ Moose = {}) =>
        /\ call.err = NoError
        /\ call.ret = Undefined

\* getRandomMoose returned from an empty store
C20_Witness ==
    /\ call.op = "getRandomMoose"
    /\ Moose = {}
    /\ MooseSearch = EmptyBag
    /\ call.ret = Undefined

\* C21, as claimed: after any sequence of saves and deletes the rowids of
\* the N stored records are exactly 1..N.
C21_RowidsDense == Rowids(Moose) = 1..Cardinality(Moose)

\* C24, as claimed: on a non-empty store getRandomMoose returns a stored
\* record, for every value of the random draw.
C24_RandomFindsRecord ==
    (call.op = "getRandomMoose" /\ Moose # {}) =>
        /\ call.err = NoError
        /\ \E r \in Moose : call.ret = rowToMoose(r)

\* the query with each run of whitespace replaced by one space
Collapsed(query) ==
    LET kept == {i \in DOMAIN query :
                    ~(IsSpace(query[i]) /\ i > 1 /\ IsSpace(query[i - 1]))}
        nth(k) == CHOOSE i \in kept : Cardinality({j \in kept : j <= i}) = k
    IN  [k \in 1..Cardinality(kept) |-> query[nth(k)]]

\* the number of double quotes in a text
QuotesIn(text) == Cardinality({i \in DOMAIN text : text[i] = Quote})

\* a text wrapped in double quotes
IsPhrase(text) ==
    Len(text) >= 2 /\ text[1] = Quote /\ text[Len(text)] = Quote

\* what a phrase stands for: the text between its outer quotes, each pair
\* of quotes in it read as one quote; a lone quote in it ends the reading
RECURSIVE Undouble(_)
Undouble(text) ==
    IF text = <<>> THEN <<>>
    ELSE IF Head(text) # Quote THEN <<Head(text)>> \o Undouble(Tail(text))
    ELSE IF Len(text) > 1 /\ text[2] = Quote
         THEN <<Quote>> \o Undouble(Tail(Tail(text)))
    ELSE <<"lone quote">>

Unquoted(phrase) == Undouble(SubSeq(phrase, 2, Len(phrase) - 1))

\* the call was a search: getGalleryPage with a non-empty query
IsSearch == IsGallery /\ call.args[1] # <<>>

\* C22: the tokenizer splits the query on runs of whitespace (the words hold
\* no whitespace and, joined by single spaces, give the query with its runs
\* of whitespace collapsed); it emits one token per word, joined by single
\* spaces; a word that is exactly AND or OR and is not the last is emitted
\* unchanged; every other word, a final AND / OR and an empty word included,
\* is emitted in double quotes with each of its quotes doubled. Every
\* emitted phrase has an even number of quotes and the last token is a
\* phrase.
C22_Tokenizer ==
    IsSearch =>
        LET query == call.args[1]
            words == Split(query)
            newQ  == EscapeQuery(query)
            toks  == Split(newQ)
        IN  /\ \A i \in DOMAIN words : \A j \in DOMAIN words[i] :
                   ~IsSpace(words[i][j])
            /\ Join(words) = Collapsed(query)
            /\ Len(toks) = Len(words)
            /\ Join(toks) = newQ
            /\ \A i \in DOMAIN words :
                   IF words[i] \in {<<"AND">>, <<"OR">>} /\ i < Len(words)
                   THEN toks[i] = words[i]
                   ELSE /\ IsPhrase(toks[i])
                        /\ Unquoted(toks[i]) = words[i]
                        /\ QuotesIn(toks[i]) = 2 * QuotesIn(words[i]) + 2
            /\ IsPhrase(toks[Len(toks)])

\* a search whose query has a connector that is not last, a word with a
\* quote in it, and a final OR
C22_Witness ==
    /\ IsSearch
    /\ call.args[1] = <<"AND", " ", Quote, "OR">>
    /\ EscapeQuery(call.args[1]) =
           <<"AND", " ", Quote, Quote, Quote, "OR", Quote>>

\* a finite integer
IsFiniteInteger(x) == "num" \in DOMAIN x

\* the call was saveMoose of a moose that has a name and an image
IsSaveOfNamed ==
    /\ call.op = "saveMoose"
    /\ "name" \in DOMAIN call.args[1]
    /\ "image" \in DOMAIN call.args[1]

\* C23, as claimed: a moose whose created is not a finite integer (NaN, an
\* infinity, a fractional number) is encoded with a null created, fails the
\* NOT NULL constraint and is not stored; a finite integer created is
\* encoded as that integer.
C23_CreatedEncoding ==
    IsSaveOfNamed =>
        LET created == ToNumber(call.args[1], "created")
            row     == mooseToRow(call.args[1])
        IN  IF IsFiniteInteger(created)
            THEN row.created = SqlInt(created.num)
            ELSE /\ row.created = Null
                 /\ call.err = NotNull("Moose.created")
                 /\ \A r \in Moose : r.created # BindNumber(created)

\* the requests whose answers have entries in state.gallery
Shown == {entry.response : entry \in BagToSet(state.gallery)}

\* C26, as claimed: state.gallery holds the entries of one answer only, so
\* at most galleryPageSize entries, whatever the order of the requests,
\* their answers and the renderings.
C26_SingleResponse ==
    /\ BagCardinality(state.gallery) <= galleryPageSize
    /\ Cardinality(Shown) <= 1

\* no request waits for its answer and no blob is left to render
Quiescent ==
    \A id \in DOMAIN requests : requests[id].status = "answered"

\* C27, as claimed: whenever no request or rendering is outstanding,
\* state.galleryPage is the page number of the request whose answer filled
\* state.gallery.
C27_PageMatchesGallery ==
    Quiescent =>
        \A id \in Shown : requests[id].pnum = state.galleryPage

\* the objects of the chunks a stream has pushed
Objects(chunks) ==
    SelectSeq(Concat(chunks), LAMBDA token : token.t = "{}")

\* C25: a save or a delete that comes between the row pulls of an export
\* changes nothing in the collection, so that the records stored when the
\* export ends are the records stored during the whole of it; and the
\* finished output holds each of them exactly once and no record twice.
C25_ExportSeesStoredOnce ==
    [][/\ reader.iterators > 0 =>
              (Moose' = Moose /\ MooseSearch' = MooseSearch)
       /\ (~reader.ended /\ reader'.ended) =>
              /\ \A r \in Moose' :
                    Cardinality({i \in DOMAIN Objects(reader'.pushed) :
                        Objects(reader'.pushed)[i].v.name.str = r.name.text})
                    = 1
              /\ \A i \in DOMAIN Objects(reader'.pushed) :
                    \E r \in Moose' :
                        Objects(reader'.pushed)[i] = mooseJson(r)]_vars

\* an export of three records that ran to its end, a delete of one of the
\* records having been refused while its cursor was open
C25_Witness ==
    /\ reader.opened = 1
    /\ reader.ended
    /\ reader.pulled = 3
    /\ Cardinality(Moose) = 3
    /\ call.op = "deleteMoose"
    /\ call.args[1] \in StoredNames(Moose)
    /\ call.err = Busy

====
